---- MODULE Spec2Model ----
(***************************************************************************)
(* The "People I've Met" form handlers (create, update, delete) and the    *)
(* detail / edit loaders, run against a row store (table `people`) and a   *)
(* blob store (bucket `portraits`).  Every awaited storage call is one     *)
(* step; requests interleave between their steps and every storage call    *)
(* may succeed or fail.                                                    *)
(***************************************************************************)
EXTENDS Integers, Sequences, FiniteSets, TLC

\* ------------------------------------------------------------------ bounds
\* Request slots of the concurrent specification (each slot serves one request).
MaxReq == 2
\* Storage calls that may fail in one run.
MaxFailures == 1

\* ------------------------------------------------------------- basic values
\* JavaScript null / undefined, as FormData.get and ?.toString() produce them.
Null == "<null>"
Undefined == "<undefined>"
\* params.id of a request that carries none, and an id the store never assigned.
NoId == -1
StrangerId == 0

TextFields == {"location", "context", "their_story", "date_met", "message_to_the_world"}

\* A file name is the list of its "/"-separated segments.
NoName == <<"">>
FileNames == {<<"a.jpg">>, <<"d", "a.jpg">>}

\* A form entry that may hold a File: absent, a string, or a File(name, size).
NoEntry == [kind |-> "none", name |-> NoName, size |-> 0, value |-> Null]
StrEntry(s) == [kind |-> "string", name |-> NoName, size |-> 0, value |-> s]
FileEntry(n, sz) == [kind |-> "file", name |-> n, size |-> sz, value |-> Null]

\* ------------------------------------------------------------ blob store
\* A key made of the file's name alone.
Filename_NoUuid(u, fname) == [i \in 1..Len(fname) |-> <<0, fname[i]>>]
\* `${uuid()}-${photoToUpload.name}`: the uuid is glued to the first segment.
Filename(u, fname) ==
  [i \in 1..Len(fname) |-> IF i = 1 THEN <<u, fname[1]>> ELSE <<0, fname[i]>>]

\* getPublicUrl(filename).publicUrl: the bucket's public prefix, then the key.
UrlPrefix == << <<0, "https:">>, <<0, "">>, <<0, "store">>, <<0, "portraits">> >>
PublicUrl(key) == UrlPrefix \o key

\* url.split("/") then urlParts[urlParts.length - 1], as an object key.
LastSegment(url) == << url[Len(url)] >>

\* remove([oldFilename]): the objects of that name are gone, the rest stay.
remove(store, names) == store \ names

\* ------------------------------------------------------------- row store
NoUrl == <<>>   \* photo_url = null (a URL is its list of segments)

Person(id, name, location, context, their_story, date_met, message, photo_url) ==
  [id |-> id, name |-> name, location |-> location, context |-> context,
   their_story |-> their_story, date_met |-> date_met,
   message_to_the_world |-> message, photo_url |-> photo_url, created_at |-> id]

\* An update that inserts the row when the filter matches none (an upsert).
ApplyPatch_Upsert(table, id, patch) ==
  IF id \in DOMAIN table
    THEN [table EXCEPT ![id] =
            [k \in DOMAIN @ |-> IF k \in DOMAIN patch THEN patch[k] ELSE @[k]]]
    ELSE [i \in DOMAIN table \cup {id} |->
            IF i = id
              THEN Person(id, patch.name, patch.location, patch.context, patch.their_story,
                          patch.date_met, patch.message_to_the_world, NoUrl)
              ELSE table[i]]
\* .update(patch).eq("id", id): the matching row, if any, takes the patch's keys.
ApplyPatch(table, id, patch) ==
  IF id \in DOMAIN table
    THEN [table EXCEPT ![id] =
            [k \in DOMAIN @ |-> IF k \in DOMAIN patch THEN patch[k] ELSE @[k]]]
    ELSE table

\* A delete whose filter matches no row.
DeleteRow_NoMatch(table, id) == table
\* .delete().eq("id", id)
DeleteRow(table, id) == [i \in DOMAIN table \ {id} |-> table[i]]

\* An insert that skips a record whose name the table already holds.
InsertRow_Dedup(table, id, rec) ==
  IF \E i \in DOMAIN table : table[i].name = rec.name THEN table
  ELSE [i \in DOMAIN table \cup {id} |-> IF i = id THEN rec ELSE table[i]]
\* .insert([record]): the store assigns the id (and created_at).
InsertRow(table, id, rec) ==
  [i \in DOMAIN table \cup {id} |-> IF i = id THEN rec ELSE table[i]]

\* .select(...).eq("id", id).single(): data is null on an error or when no row matches.
NoData == [found |-> FALSE, photo_url |-> NoUrl]
SelectSingle(table, id, ok) ==
  IF ok /\ id \in DOMAIN table
    THEN [found |-> TRUE, photo_url |-> table[id].photo_url]
    ELSE NoData

\* ------------------------------------------------------ parsing the form
\* JavaScript truthiness of a form entry: a File is truthy, "" and null are not.
Truthy(e) == e.kind = "file" \/ (e.kind = "string" /\ e.value # "")

\* formData.get("name")?.toString()
name(fd) == IF fd.name = Null THEN Undefined ELSE fd.name
\* formData.get(f)?.toString() || null
OrNull(v) == IF v = Null \/ v = "" THEN Null ELSE v
location(fd) == OrNull(fd.location)
context(fd) == OrNull(fd.context)
their_story(fd) == OrNull(fd.their_story)
date_met(fd) == OrNull(fd.date_met)
message_to_the_world(fd) == OrNull(fd.message_to_the_world)
\* A flag that counts every value but "false" as keep.
keepExistingPhoto_UnlessFalse(fd) == fd.keepExistingPhoto # "false"
\* formData.get("keepExistingPhoto") === "true"
keepExistingPhoto(fd) == fd.keepExistingPhoto = "true"
\* A choice that prefers the original: photo || compressedPhoto
photoToUpload_OriginalFirst(fd) == IF Truthy(fd.photo) THEN fd.photo ELSE fd.compressedPhoto
\* compressedPhoto || photo
photoToUpload(fd) == IF Truthy(fd.compressedPhoto) THEN fd.compressedPhoto ELSE fd.photo
\* A test that takes any file, even an empty one.
HasNewPhoto_AnyFile(fd) == Truthy(photoToUpload(fd))
\* photoToUpload && photoToUpload.size > 0   (a string has no size: undefined > 0 is false)
HasNewPhoto(fd) ==
  LET p == photoToUpload(fd) IN Truthy(p) /\ p.kind = "file" /\ p.size > 0
\* A check that catches an absent name only, not an empty one.
NameMissing_AbsentOnly(fd) == name(fd) = Undefined
\* if (!name) errors.name = "Name is required"
NameMissing(fd) == name(fd) = Undefined \/ name(fd) = ""
\* A validation that asks for a location as well.
errors_NeedsLocation(fd) ==
  (IF NameMissing(fd) THEN {<<"name", "Name is required">>} ELSE {})
    \cup (IF OrNull(fd.location) = Null THEN {<<"location", "Location is required">>} ELSE {})
\* A handler that collects no error.
errors_None(fd) == {}
errors(fd) == IF NameMissing(fd) THEN {<<"name", "Name is required">>} ELSE {}

\* ------------------------------------------------------------- responses
NoRedirect == [to |-> Null, id |-> NoId]
\* the Location of redirect("/people") and of redirect(`/people/${id}`)
PeoplePage == [to |-> "/people", id |-> NoId]
\* A redirect to the list where the person's page is meant.
PersonPage_List(id) == PeoplePage
PersonPage(id) == [to |-> "/people/{id}", id |-> id]
NoResponse == [status |-> 0, redirect |-> NoRedirect, error |-> Null, fieldErrors |-> {}]
\* redirect(path): 302 with a Location
redirect(path) == [status |-> 302, redirect |-> path, error |-> Null, fieldErrors |-> {}]
\* return { fieldErrors: errors } / json({ fieldErrors: errors })
FieldErrors(errs) == [status |-> 200, redirect |-> NoRedirect, error |-> Null, fieldErrors |-> errs]
\* return { error } / json({ error }, { status })
ErrorResponse(msg, status) ==
  [status |-> status, redirect |-> NoRedirect, error |-> msg, fieldErrors |-> {}]

\* ------------------------------------------------------------------ state
VARIABLES
  rows,      \* table `people`: id -> row
  blobs,     \* bucket `portraits`: the keys of the stored objects
  nextId,    \* the next identifier the row store assigns
  nextUuid,  \* the next value uuid() returns
  req,       \* the requests: slot -> handler invocation
  failures,  \* how many storage calls have failed so far
  client     \* the browser: the call of compressImage in progress

vars == <<rows, blobs, nextId, nextUuid, req, failures, client>>

Req == 1..MaxReq

\* A submission with no field at all.
EmptyForm ==
  [name |-> Null, location |-> Null, context |-> Null, their_story |-> Null,
   date_met |-> Null, message_to_the_world |-> Null, photo |-> NoEntry,
   compressedPhoto |-> NoEntry, keepExistingPhoto |-> Null, intent |-> Null]

Idle ==
  [kind |-> "none", pc |-> "idle", id |-> NoId, formData |-> EmptyForm,
   existingPerson |-> NoData, filename |-> <<>>, photo_url |-> NoUrl,
   response |-> NoResponse, calls |-> <<>>, people |-> <<>>]

Call(op, ok) == [op |-> op, ok |-> ok]
\* A storage call returns a result or an error.
Outcome(ok) ==
  /\ ~ok => failures < MaxFailures
  /\ failures' = IF ok THEN failures ELSE failures + 1
Terminal == {"done", "rejected", "failed"}

\* --------------------------------------------- create: people.new.tsx action
\* Parse and validate; no storage call yet.
CreateStart(r, fd) ==
  /\ req[r].pc = "idle"
  /\ req' = [req EXCEPT ![r] =
       IF errors(fd) # {}
         THEN [@ EXCEPT !.kind = "create", !.formData = fd, !.pc = "rejected",
                        !.response = FieldErrors(errors(fd))]
         ELSE [@ EXCEPT !.kind = "create", !.formData = fd,
                        !.pc = IF HasNewPhoto(fd) THEN "upload" ELSE "write"]]
  /\ UNCHANGED <<rows, blobs, nextId, nextUuid, failures>>
  /\ UNCHANGED client

\* An upload that is tried again after an error.
CreateUpload_Retries(r, ok) ==
  /\ req[r].kind = "create" /\ req[r].pc = "upload"
  /\ Outcome(ok)
  /\ LET filename == Filename(nextUuid, photoToUpload(req[r].formData).name) IN
       /\ nextUuid' = IF ok THEN nextUuid + 1 ELSE nextUuid
       /\ blobs' = IF ok THEN blobs \cup {filename} ELSE blobs
       /\ req' = [req EXCEPT ![r] =
            IF ok
              THEN [@ EXCEPT !.filename = filename, !.photo_url = PublicUrl(filename),
                             !.calls = Append(@, Call("upload", TRUE)), !.pc = "write"]
              ELSE [@ EXCEPT !.calls = Append(@, Call("upload", FALSE))]]
  /\ UNCHANGED <<rows, nextId>>
  /\ UNCHANGED client

\* storage.from("portraits").upload(filename, photoToUpload, {upsert: false})
CreateUpload(r, ok) ==
  /\ req[r].kind = "create" /\ req[r].pc = "upload"
  /\ Outcome(ok)
  /\ LET filename == Filename(nextUuid, photoToUpload(req[r].formData).name) IN
       /\ nextUuid' = IF ok THEN nextUuid + 1 ELSE nextUuid
       /\ blobs' = IF ok THEN blobs \cup {filename} ELSE blobs
       /\ req' = [req EXCEPT ![r] =
            IF ok
              THEN [@ EXCEPT !.filename = filename, !.photo_url = PublicUrl(filename),
                             !.calls = Append(@, Call("upload", TRUE)), !.pc = "write"]
              ELSE [@ EXCEPT !.calls = Append(@, Call("upload", FALSE)), !.pc = "failed",
                             !.response = ErrorResponse("Failed to upload photo", 200)]]
  /\ UNCHANGED <<rows, nextId>>
  /\ UNCHANGED client

\* A record that leaves their_story out.
NewPerson_NoStory(id, fd, photo_url) ==
  Person(id, name(fd), location(fd), context(fd), Null, date_met(fd),
         message_to_the_world(fd), photo_url)
\* The record the create handler inserts.
NewPerson(id, fd, photo_url) ==
  Person(id, name(fd), location(fd), context(fd), their_story(fd), date_met(fd),
         message_to_the_world(fd), photo_url)

\* An insert that, when it fails, rolls the uploaded blob back.
CreateInsert_Rollback(r, ok) ==
  /\ req[r].kind = "create" /\ req[r].pc = "write"
  /\ Outcome(ok)
  /\ IF ok
       THEN /\ rows' = InsertRow(rows, nextId, NewPerson(nextId, req[r].formData, req[r].photo_url))
            /\ nextId' = nextId + 1
            /\ blobs' = blobs
            /\ req' = [req EXCEPT ![r].calls = Append(@, Call("insert", TRUE)),
                                  ![r].pc = "done",
                                  ![r].response = redirect(PeoplePage)]
       ELSE /\ UNCHANGED <<rows, nextId>>
            /\ blobs' = remove(blobs, {req[r].filename})
            /\ req' = [req EXCEPT ![r].calls = Append(Append(@, Call("insert", FALSE)),
                                                      Call("remove", TRUE)),
                                  ![r].pc = "failed",
                                  ![r].response = ErrorResponse("Failed to add person", 200)]
  /\ UNCHANGED nextUuid
  /\ UNCHANGED client

\* from("people").insert([{...}])
CreateInsert(r, ok) ==
  /\ req[r].kind = "create" /\ req[r].pc = "write"
  /\ Outcome(ok)
  /\ IF ok
       THEN /\ rows' = InsertRow(rows, nextId, NewPerson(nextId, req[r].formData, req[r].photo_url))
            /\ nextId' = nextId + 1
            /\ req' = [req EXCEPT ![r].calls = Append(@, Call("insert", TRUE)),
                                  ![r].pc = "done",
                                  ![r].response = redirect(PeoplePage)]
       ELSE /\ UNCHANGED <<rows, nextId>>
            /\ req' = [req EXCEPT ![r].calls = Append(@, Call("insert", FALSE)),
                                  ![r].pc = "failed",
                                  ![r].response = ErrorResponse("Failed to add person", 200)]
  /\ UNCHANGED <<blobs, nextUuid>>
  /\ UNCHANGED client

\* ----------------------------------------- update: people.$id.edit.tsx action
UpdateStart(r, id, fd) ==
  /\ req[r].pc = "idle"
  /\ req' = [req EXCEPT ![r] =
       IF id = NoId
         THEN [@ EXCEPT !.kind = "update", !.id = id, !.formData = fd, !.pc = "rejected",
                        !.response = ErrorResponse("Person ID is required", 400)]
       ELSE IF errors(fd) # {}
         THEN [@ EXCEPT !.kind = "update", !.id = id, !.formData = fd, !.pc = "rejected",
                        !.response = FieldErrors(errors(fd))]
         ELSE [@ EXCEPT !.kind = "update", !.id = id, !.formData = fd,
                        !.pc = IF HasNewPhoto(fd) THEN "select" ELSE "write"]]
  /\ UNCHANGED <<rows, blobs, nextId, nextUuid, failures>>
  /\ UNCHANGED client

\* const { data: existingPerson } = ...select("photo_url").eq("id", id).single()
UpdateSelect(r, ok) ==
  /\ req[r].kind = "update" /\ req[r].pc = "select"
  /\ Outcome(ok)
  /\ req' = [req EXCEPT ![r].existingPerson = SelectSingle(rows, req[r].id, ok),
                        ![r].calls = Append(@, Call("select", ok)),
                        ![r].pc = "upload"]
  /\ UNCHANGED <<rows, blobs, nextId, nextUuid>>
  /\ UNCHANGED client

\* A test that forgets the keep flag.
RemovesOld_IgnoresKeep(existingPerson, fd) ==
  existingPerson.found /\ existingPerson.photo_url # NoUrl
\* existingPerson?.photo_url && !keepExistingPhoto
RemovesOld(existingPerson, fd) ==
  existingPerson.found /\ existingPerson.photo_url # NoUrl /\ ~keepExistingPhoto(fd)

\* An upload whose error is only logged: the handler goes on to the row update.
UpdateUpload_GoesOn(r, ok) ==
  /\ req[r].kind = "update" /\ req[r].pc = "upload"
  /\ Outcome(ok)
  /\ LET filename == Filename(nextUuid, photoToUpload(req[r].formData).name) IN
       /\ nextUuid' = IF ok THEN nextUuid + 1 ELSE nextUuid
       /\ blobs' = IF ok THEN blobs \cup {filename} ELSE blobs
       /\ req' = [req EXCEPT ![r] =
            IF ok
              THEN [@ EXCEPT !.filename = filename, !.photo_url = PublicUrl(filename),
                             !.calls = Append(@, Call("upload", TRUE)),
                             !.pc = IF RemovesOld(req[r].existingPerson, req[r].formData)
                                      THEN "remove" ELSE "write"]
              ELSE [@ EXCEPT !.calls = Append(@, Call("upload", FALSE)), !.pc = "write"]]
  /\ UNCHANGED <<rows, nextId>>
  /\ UNCHANGED client

\* upload the new photo; then decide whether the old one is removed
UpdateUpload(r, ok) ==
  /\ req[r].kind = "update" /\ req[r].pc = "upload"
  /\ Outcome(ok)
  /\ LET filename == Filename(nextUuid, photoToUpload(req[r].formData).name) IN
       /\ nextUuid' = IF ok THEN nextUuid + 1 ELSE nextUuid
       /\ blobs' = IF ok THEN blobs \cup {filename} ELSE blobs
       /\ req' = [req EXCEPT ![r] =
            IF ok
              THEN [@ EXCEPT !.filename = filename, !.photo_url = PublicUrl(filename),
                             !.calls = Append(@, Call("upload", TRUE)),
                             !.pc = IF RemovesOld(req[r].existingPerson, req[r].formData)
                                      THEN "remove" ELSE "write"]
              ELSE [@ EXCEPT !.calls = Append(@, Call("upload", FALSE)), !.pc = "failed",
                             !.response = ErrorResponse("Failed to upload photo", 200)]]
  /\ UNCHANGED <<rows, nextId>>
  /\ UNCHANGED client

\* A removal whose failure is returned to the user.
UpdateRemove_Surfaces(r, ok) ==
  /\ req[r].kind = "update" /\ req[r].pc = "remove"
  /\ Outcome(ok)
  /\ blobs' = IF ok THEN remove(blobs, {LastSegment(req[r].existingPerson.photo_url)})
                    ELSE blobs
  /\ req' = [req EXCEPT ![r] =
       IF ok THEN [@ EXCEPT !.calls = Append(@, Call("remove", TRUE)), !.pc = "write"]
       ELSE [@ EXCEPT !.calls = Append(@, Call("remove", FALSE)), !.pc = "failed",
                      !.response = ErrorResponse("Failed to remove photo", 200)]]
  /\ UNCHANGED <<rows, nextId, nextUuid>>
  /\ UNCHANGED client

\* storage.from("portraits").remove([oldFilename]); a failure is only logged
UpdateRemove(r, ok) ==
  /\ req[r].kind = "update" /\ req[r].pc = "remove"
  /\ Outcome(ok)
  /\ blobs' = IF ok THEN remove(blobs, {LastSegment(req[r].existingPerson.photo_url)})
                    ELSE blobs
  /\ req' = [req EXCEPT ![r].calls = Append(@, Call("remove", ok)), ![r].pc = "write"]
  /\ UNCHANGED <<rows, nextId, nextUuid>>
  /\ UNCHANGED client

\* A patch that clears photo_url whenever no new photo came, whatever the keep flag.
updateData_ClearsPhoto(fd, photo_url) ==
  LET base == [k \in {"name"} \cup TextFields |->
                 IF k = "name" THEN name(fd) ELSE OrNull(fd[k])]
      withPhoto(u) == [k \in DOMAIN base \cup {"photo_url"} |->
                         IF k = "photo_url" THEN u ELSE base[k]]
  IN IF HasNewPhoto(fd) THEN withPhoto(photo_url) ELSE withPhoto(NoUrl)

\* A patch that forgets to carry the new photo's URL.
updateData_KeepsOldUrl(fd, photo_url) ==
  LET base == [k \in {"name"} \cup TextFields |->
                 IF k = "name" THEN name(fd) ELSE OrNull(fd[k])]
      withPhoto(u) == [k \in DOMAIN base \cup {"photo_url"} |->
                         IF k = "photo_url" THEN u ELSE base[k]]
  IN IF HasNewPhoto(fd) THEN base
     ELSE IF ~keepExistingPhoto(fd) THEN withPhoto(NoUrl)
     ELSE base

\* updateData: the six text fields, and photo_url only in two of the three branches
updateData(fd, photo_url) ==
  LET base == [k \in {"name"} \cup TextFields |->
                 IF k = "name" THEN name(fd) ELSE OrNull(fd[k])]
      withPhoto(u) == [k \in DOMAIN base \cup {"photo_url"} |->
                         IF k = "photo_url" THEN u ELSE base[k]]
  IN IF HasNewPhoto(fd) THEN withPhoto(photo_url)
     ELSE IF ~keepExistingPhoto(fd) THEN withPhoto(NoUrl)
     ELSE base

\* A row update that is issued again after an error.
UpdateRow_Retries(r, ok) ==
  /\ req[r].kind = "update" /\ req[r].pc = "write"
  /\ Outcome(ok)
  /\ rows' = IF ok THEN ApplyPatch(rows, req[r].id, updateData(req[r].formData, req[r].photo_url))
                   ELSE rows
  /\ req' = [req EXCEPT ![r].calls = Append(@, Call("update", ok)),
                        ![r].pc = IF ok THEN "done" ELSE "write",
                        ![r].response = IF ok THEN redirect(PersonPage(req[r].id)) ELSE @]
  /\ UNCHANGED <<blobs, nextId, nextUuid>>
  /\ UNCHANGED client

\* from("people").update(updateData).eq("id", id)
UpdateRow(r, ok) ==
  /\ req[r].kind = "update" /\ req[r].pc = "write"
  /\ Outcome(ok)
  /\ rows' = IF ok THEN ApplyPatch(rows, req[r].id, updateData(req[r].formData, req[r].photo_url))
                   ELSE rows
  /\ req' = [req EXCEPT ![r].calls = Append(@, Call("update", ok)),
                        ![r].pc = IF ok THEN "done" ELSE "failed",
                        ![r].response = IF ok THEN redirect(PersonPage(req[r].id))
                                        ELSE ErrorResponse("Failed to update person", 200)]
  /\ UNCHANGED <<blobs, nextId, nextUuid>>
  /\ UNCHANGED client

\* --------------------------------------------- delete: people.$id.tsx action
\* A handler that deletes whatever the intent field says.
DeleteStart_AnyIntent(r, id, fd) ==
  /\ req[r].pc = "idle"
  /\ req' = [req EXCEPT ![r] =
       IF id = NoId
         THEN [@ EXCEPT !.kind = "delete", !.id = id, !.formData = fd, !.pc = "rejected",
                        !.response = ErrorResponse("Person ID is required", 400)]
         ELSE [@ EXCEPT !.kind = "delete", !.id = id, !.formData = fd, !.pc = "select"]]
  /\ UNCHANGED <<rows, blobs, nextId, nextUuid, failures>>
  /\ UNCHANGED client

\* if (!id) 400; intent = formData.get("intent"); anything but "delete": 400
DeleteStart(r, id, fd) ==
  /\ req[r].pc = "idle"
  /\ req' = [req EXCEPT ![r] =
       IF id = NoId
         THEN [@ EXCEPT !.kind = "delete", !.id = id, !.formData = fd, !.pc = "rejected",
                        !.response = ErrorResponse("Person ID is required", 400)]
       ELSE IF fd.intent # "delete"
         THEN [@ EXCEPT !.kind = "delete", !.id = id, !.formData = fd, !.pc = "rejected",
                        !.response = ErrorResponse("Invalid action", 400)]
         ELSE [@ EXCEPT !.kind = "delete", !.id = id, !.formData = fd, !.pc = "select"]]
  /\ UNCHANGED <<rows, blobs, nextId, nextUuid, failures>>
  /\ UNCHANGED client

\* const { data: person } = ...select("photo_url").eq("id", id).single()
DeleteSelect(r, ok) ==
  /\ req[r].kind = "delete" /\ req[r].pc = "select"
  /\ Outcome(ok)
  /\ req' = [req EXCEPT ![r].existingPerson = SelectSingle(rows, req[r].id, ok),
                        ![r].calls = Append(@, Call("select", ok)),
                        ![r].pc = "write"]
  /\ UNCHANGED <<rows, blobs, nextId, nextUuid>>
  /\ UNCHANGED client

\* if (person?.photo_url)
RemovesPhoto(person) == person.found /\ person.photo_url # NoUrl

\* A delete that goes on to remove the blob although the row delete failed.
DeleteWrite_RemovesAnyway(r, ok) ==
  /\ req[r].kind = "delete" /\ req[r].pc = "write"
  /\ Outcome(ok)
  /\ rows' = IF ok THEN DeleteRow(rows, req[r].id) ELSE rows
  /\ req' = [req EXCEPT ![r] =
       IF RemovesPhoto(@.existingPerson)
         THEN [@ EXCEPT !.calls = Append(@, Call("delete", ok)), !.pc = "remove"]
       ELSE IF ~ok
         THEN [@ EXCEPT !.calls = Append(@, Call("delete", FALSE)), !.pc = "failed",
                        !.response = ErrorResponse("Failed to delete", 500)]
         ELSE [@ EXCEPT !.calls = Append(@, Call("delete", TRUE)), !.pc = "done",
                        !.response = redirect(PeoplePage)]]
  /\ UNCHANGED <<blobs, nextId, nextUuid>>
  /\ UNCHANGED client

\* from("people").delete().eq("id", id)
DeleteWrite(r, ok) ==
  /\ req[r].kind = "delete" /\ req[r].pc = "write"
  /\ Outcome(ok)
  /\ rows' = IF ok THEN DeleteRow(rows, req[r].id) ELSE rows
  /\ req' = [req EXCEPT ![r] =
       IF ~ok
         THEN [@ EXCEPT !.calls = Append(@, Call("delete", FALSE)), !.pc = "failed",
                        !.response = ErrorResponse("Failed to delete", 500)]
       ELSE IF RemovesPhoto(@.existingPerson)
         THEN [@ EXCEPT !.calls = Append(@, Call("delete", TRUE)), !.pc = "remove"]
         ELSE [@ EXCEPT !.calls = Append(@, Call("delete", TRUE)), !.pc = "done",
                        !.response = redirect(PeoplePage)]]
  /\ UNCHANGED <<blobs, nextId, nextUuid>>
  /\ UNCHANGED client

\* storage.from("portraits").remove([filename]); a failure is only logged
DeleteRemove(r, ok) ==
  /\ req[r].kind = "delete" /\ req[r].pc = "remove"
  /\ Outcome(ok)
  /\ blobs' = IF ok THEN remove(blobs, {LastSegment(req[r].existingPerson.photo_url)})
                    ELSE blobs
  /\ req' = [req EXCEPT ![r].calls = Append(@, Call("remove", ok)), ![r].pc = "done",
                        ![r].response = redirect(PeoplePage)]
  /\ UNCHANGED <<rows, nextId, nextUuid>>
  /\ UNCHANGED client

\* ------------------------------------- loaders: people.$id.tsx, people.$id.edit.tsx
NotFound == [status |-> 404, person |-> Null]
\* if (!id) 404; select("*").eq("id", id).single(); if (error || !data) 404
loader(table, id, ok) ==
  IF id = NoId THEN NotFound
  ELSE IF ~ok \/ id \notin DOMAIN table THEN NotFound
  ELSE [status |-> 200, person |-> table[id]]
editLoader(table, id, ok) ==
  IF id = NoId THEN NotFound
  ELSE IF ~ok \/ id \notin DOMAIN table THEN NotFound
  ELSE [status |-> 200, person |-> table[id]]

\* ------------------------------------------------- the people list: index loader
\* select("id, name, photo_url, location, date_met, created_at")
Columns == {"id", "name", "photo_url", "location", "date_met", "created_at"}
Project(row) == [c \in Columns |-> row[c]]

\* An ordering that asks for the oldest first.
Orderings_Ascending(table) ==
  {s \in [1..Cardinality(DOMAIN table) -> DOMAIN table] :
     /\ \A k, l \in DOMAIN s : k # l => s[k] # s[l]
     /\ \A k \in DOMAIN s : k + 1 \in DOMAIN s
          => table[s[k]].created_at <= table[s[k + 1]].created_at}
\* .order("created_at", { ascending: false }): every row once, newest first; rows of
\* the same created_at come in any order.
Orderings(table) ==
  {s \in [1..Cardinality(DOMAIN table) -> DOMAIN table] :
     /\ \A k, l \in DOMAIN s : k # l => s[k] # s[l]
     /\ \A k \in DOMAIN s : k + 1 \in DOMAIN s
          => table[s[k]].created_at >= table[s[k + 1]].created_at}

\* if (error) return json({ people: [] }); return json({ people: data || [] })
ListLoad(r, ok) ==
  /\ req[r].pc = "idle"
  /\ Outcome(ok)
  /\ \E s \in Orderings(rows) :
       req' = [req EXCEPT ![r] =
                 [@ EXCEPT !.kind = "list", !.pc = "done",
                           !.calls = <<Call("select", ok)>>,
                           !.response = [NoResponse EXCEPT !.status = 200],
                           !.people = IF ok THEN [k \in DOMAIN s |-> Project(rows[s[k]])]
                                           ELSE <<>>]]
  /\ UNCHANGED <<rows, blobs, nextId, nextUuid>>
  /\ UNCHANGED client

\* ------------------------------------------- compressImage (utils/imageCompression)
\* A File: which object it is, its MIME type ("/"-separated segments) and its byte size.
ImageFile(ref, type, size) == [ref |-> ref, type |-> type, size |-> size]
NoFile == ImageFile(0, <<>>, 0)

KB == 1024
DefaultMaxSizeKB == 300
\* maxSizeKB: number = 300
maxSizeKB(args) == IF Len(args) >= 2 THEN args[2] ELSE DefaultMaxSizeKB

\* imageFile.type.startsWith('image/')
IsImageType(type) == Len(type) >= 2 /\ type[1] = "image"

\* A test that sends a file of exactly the target size to the re-encoder.
SkipsCompression_Strict(imageFile, maxKB) ==
  ~IsImageType(imageFile.type) \/ imageFile.size < maxKB * KB
\* !imageFile.type.startsWith('image/') || imageFile.size <= maxSizeKB * 1024
SkipsCompression(imageFile, maxKB) ==
  ~IsImageType(imageFile.type) \/ imageFile.size <= maxKB * KB

\* What awaiting imageCompression(imageFile, options) gives: it throws, or a new File.
Threw == [threw |-> TRUE, file |-> NoFile]
Encoded(file) == [threw |-> FALSE, file |-> file]

\* A choice whose size comparison is the wrong way round.
Resolved_Inverted(imageFile, outcome) ==
  IF outcome.threw THEN imageFile
  ELSE IF outcome.file.size < imageFile.size THEN imageFile
  ELSE outcome.file
\* A choice that takes the re-encoder's file whatever its size.
Resolved_NoSizeCheck(imageFile, outcome) ==
  IF outcome.threw THEN imageFile ELSE outcome.file
\* catch: the original; compressedFile.size > imageFile.size: the original; else compressedFile
Resolved(imageFile, outcome) ==
  IF outcome.threw THEN imageFile
  ELSE IF outcome.file.size > imageFile.size THEN imageFile
  ELSE outcome.file

\* The browser page: the call of compressImage in progress (pc, args, encoderCalls,
\* outcome, result) and the form view's state (the file input's file, compressedFile,
\* isCompressing, navigation.state, and how many files were picked so far).
ClientIdle ==
  [pc |-> "idle", args |-> <<NoFile>>, encoderCalls |-> 0, outcome |-> Threw,
   result |-> NoFile, file |-> NoFile, compressedFile |-> NoFile,
   isCompressing |-> FALSE, navigation |-> "idle", picks |-> 0]

\* compressImage(imageFile, maxSizeKB) up to its first return or its await
compressImageCall(c, args) ==
  IF SkipsCompression(args[1], maxSizeKB(args))
    THEN [c EXCEPT !.pc = "resolved", !.args = args, !.result = args[1]]
    ELSE [c EXCEPT !.pc = "encoding", !.args = args, !.encoderCalls = @ + 1]
compressImage(args) ==
  /\ client.pc = "idle"
  /\ client' = compressImageCall(client, args)
  /\ UNCHANGED <<rows, blobs, nextId, nextUuid, req, failures>>

\* compressImage after imageCompression(imageFile, options) has settled
compressImageSettled(outcome) ==
  /\ client.pc = "encoding"
  /\ client' = [client EXCEPT !.pc = "resolved", !.outcome = outcome,
                               !.result = Resolved(client.args[1], outcome)]
  /\ UNCHANGED <<rows, blobs, nextId, nextUuid, req, failures>>

\* ------------------------------- the form views: NewPerson and EditPerson components
\* How many files the user picks in one visit of the form.
MaxPicks == 2

\* const isSubmitting = navigation.state === "submitting" || isCompressing
isSubmitting(c) == c.navigation = "submitting" \/ c.isCompressing

\* A handler that starts compressing without raising the flag.
handleFileChange_NoFlag(file) ==
  /\ ~isSubmitting(client)
  /\ client.pc = "idle" /\ client.picks < MaxPicks
  /\ client' =
       IF file # NoFile
         THEN compressImageCall([client EXCEPT !.file = file, !.picks = @ + 1], <<file, 300>>)
         ELSE [client EXCEPT !.file = file, !.picks = @ + 1, !.compressedFile = NoFile]
  /\ UNCHANGED <<rows, blobs, nextId, nextUuid, req, failures>>

\* handleFileChange up to its await: the file input is enabled (disabled={isSubmitting});
\* with a file it raises isCompressing and calls compressImage(file, 300), with none it
\* clears compressedFile.
handleFileChange(file) ==
  /\ ~isSubmitting(client)
  /\ client.pc = "idle" /\ client.picks < MaxPicks
  /\ client' =
       IF file # NoFile
         THEN compressImageCall([client EXCEPT !.file = file, !.picks = @ + 1,
                                               !.isCompressing = TRUE], <<file, 300>>)
         ELSE [client EXCEPT !.file = file, !.picks = @ + 1, !.compressedFile = NoFile]
  /\ UNCHANGED <<rows, blobs, nextId, nextUuid, req, failures>>

\* handleFileChange after the await: setCompressedFile(compressed); finally
\* setIsCompressing(false)
handleFileChangeSettled ==
  /\ client.pc = "resolved"
  /\ client' = [client EXCEPT !.pc = "idle", !.compressedFile = client.result,
                               !.isCompressing = FALSE]
  /\ UNCHANGED <<rows, blobs, nextId, nextUuid, req, failures>>

\* The submit button (disabled={isSubmitting}) is pressed: navigation.state = "submitting".
Submit ==
  /\ ~isSubmitting(client)
  /\ client' = [client EXCEPT !.navigation = "submitting"]
  /\ UNCHANGED <<rows, blobs, nextId, nextUuid, req, failures>>

\* The action's answer has arrived and the form is shown again (an error was returned).
SubmitSettled ==
  /\ client.navigation = "submitting"
  /\ client' = [client EXCEPT !.navigation = "idle"]
  /\ UNCHANGED <<rows, blobs, nextId, nextUuid, req, failures>>

\* ------------------------------------------------------------ the inputs
\* What a browser sends for the form with only these controls filled in.
Form(nameV, locationV, photoV, compressedV, keepV) ==
  [EmptyForm EXCEPT !.name = nameV, !.location = locationV, !.context = "",
                    !.their_story = "", !.date_met = "", !.message_to_the_world = "",
                    !.photo = photoV, !.compressedPhoto = compressedV,
                    !.keepExistingPhoto = keepV]

EmptyFile == FileEntry(NoName, 0)
Photos == {FileEntry(n, 1) : n \in FileNames}

\* The submissions of the concurrent specification.
CreateForms ==
  {Form("", "Paris", FileEntry(<<"a.jpg">>, 1), StrEntry(""), Null)}
    \cup {Form("Alice", "Paris", p, StrEntry(""), Null) :
            p \in {EmptyFile, FileEntry(<<"a.jpg">>, 1)}}
UpdateForms ==
  {Form("", "Oslo", EmptyFile, StrEntry(""), "true")}
    \cup {Form("Bob", "Oslo", p, StrEntry(""), k) :
            p \in {EmptyFile, FileEntry(<<"b.jpg">>, 1)}, k \in {"true", "false"}}
DeleteForms == {[EmptyForm EXCEPT !.intent = "delete"]}

\* The ids a client can name: one the store never assigned, or one it did assign.
Targets == {StrangerId} \cup 1..(nextId - 1)

\* The stores a run may start from: empty, or one person with a portrait.
Alice(photo_url) == NewPerson(1, Form("Alice", "Paris", EmptyFile, StrEntry(""), Null), photo_url)
InitStores ==
  {[rows |-> <<>>, blobs |-> {}, nextId |-> 1, nextUuid |-> 1]}
    \cup {[rows |-> <<Alice(PublicUrl(Filename(1, n)))>>, blobs |-> {Filename(1, n)},
           nextId |-> 2, nextUuid |-> 2] : n \in {<<"a.jpg">>}}

Init ==
  /\ \E s \in InitStores :
       /\ rows = s.rows
       /\ blobs = s.blobs
       /\ nextId = s.nextId
       /\ nextUuid = s.nextUuid
  /\ req = [r \in Req |-> Idle]
  /\ failures = 0
  /\ client = ClientIdle

\* Slots are taken in order (they are interchangeable).
Free(r) == IF r = 1 THEN TRUE ELSE req[r - 1].pc # "idle"

Step(r) ==
  \/ \E ok \in BOOLEAN : CreateUpload(r, ok)
  \/ \E ok \in BOOLEAN : CreateInsert(r, ok)
  \/ \E ok \in BOOLEAN : UpdateSelect(r, ok)
  \/ \E ok \in BOOLEAN : UpdateUpload(r, ok)
  \/ \E ok \in BOOLEAN : UpdateRemove(r, ok)
  \/ \E ok \in BOOLEAN : UpdateRow(r, ok)
  \/ \E ok \in BOOLEAN : DeleteSelect(r, ok)
  \/ \E ok \in BOOLEAN : DeleteWrite(r, ok)
  \/ \E ok \in BOOLEAN : DeleteRemove(r, ok)

Next ==
  \E r \in Req :
    \/ Free(r) /\ \E fd \in CreateForms : CreateStart(r, fd)
    \/ Free(r) /\ \E id \in Targets, fd \in UpdateForms : UpdateStart(r, id, fd)
    \/ Free(r) /\ \E id \in Targets, fd \in DeleteForms : DeleteStart(r, id, fd)
    \/ Step(r)

Spec == Init /\ [][Next]_vars

\* ------------------------------------- one request at a time, every input
\* A non-empty value of each text field, all different.
Sample(f) ==
  CASE f = "name" -> "Alice"
    [] f = "location" -> "Paris"
    [] f = "context" -> "cafe"
    [] f = "their_story" -> "story"
    [] f = "date_met" -> "2024-01-02"
    [] OTHER -> "hello"

\* Every text field absent, empty or filled in; no file.
TextForms ==
  {[k \in DOMAIN EmptyForm |-> IF k \in DOMAIN t THEN t[k] ELSE EmptyForm[k]] :
     t \in {u \in [{"name"} \cup TextFields -> {Null, "", "filled"}] : TRUE}}
FilledIn(fd) ==
  [k \in DOMAIN fd |-> IF k \in {"name"} \cup TextFields /\ fd[k] = "filled"
                         THEN Sample(k) ELSE fd[k]]

\* Every combination of the two file entries and the keep flag.
PhotoEntries == {NoEntry, EmptyFile} \cup Photos
CompressedEntries == {NoEntry, StrEntry(""), EmptyFile, FileEntry(<<"c.jpg">>, 1)}
KeepValues == {Null, "true", "false", "on"}
PhotoForms ==
  {Form(n, "Oslo", p, c, k) :
     n \in {"", "Bob"}, p \in PhotoEntries, c \in CompressedEntries, k \in KeepValues}

WideForms == {FilledIn(fd) : fd \in TextForms} \cup PhotoForms
IntentForms == {[EmptyForm EXCEPT !.intent = i] : i \in {Null, "delete", "edit"}}
WideTargets == {NoId} \cup Targets

InitStoresOne ==
  InitStores
    \cup {[rows |-> <<Alice(NoUrl)>>, blobs |-> {}, nextId |-> 2, nextUuid |-> 1]}
    \cup {[rows |-> <<Alice(PublicUrl(Filename(1, n)))>>, blobs |-> {Filename(1, n)},
           nextId |-> 2, nextUuid |-> 2] : n \in FileNames}

InitOne ==
  /\ \E s \in InitStoresOne :
       /\ rows = s.rows
       /\ blobs = s.blobs
       /\ nextId = s.nextId
       /\ nextUuid = s.nextUuid
  /\ req = [r \in Req |-> Idle]
  /\ failures = 0
  /\ client = ClientIdle

NextOne ==
  \/ \E fd \in WideForms : CreateStart(1, fd)
  \/ \E id \in WideTargets, fd \in WideForms : UpdateStart(1, id, fd)
  \/ \E id \in WideTargets, fd \in IntentForms : DeleteStart(1, id, fd)
  \/ Step(1)

SpecOne == InitOne /\ [][NextOne]_vars

\* ------------------------------------------------ compressImage on every input
MimeTypes == {<<"image", "jpeg">>, <<"image", "png">>, <<"image">>, <<"Image", "JPEG">>,
              <<"text", "plain">>, <<>>}
Sizes == {0, KB, KB + 1, DefaultMaxSizeKB * KB, DefaultMaxSizeKB * KB + 1, 400 * KB}
\* The files a user can pick (object 1) and the target sizes a caller can pass.
PickedFiles == {ImageFile(1, t, sz) : t \in MimeTypes, sz \in Sizes}
CompressArgs == {<<f>> : f \in PickedFiles} \cup {<<f, k>> : f \in PickedFiles, k \in {1, 300}}
\* What the re-encoder can answer for a file: an error, or a new File (object 2) of the
\* type asked for and of any size.
Outcomes(imageFile) ==
  {Threw} \cup {Encoded(ImageFile(2, imageFile.type, sz)) : sz \in Sizes}

InitCompress ==
  /\ rows = <<>> /\ blobs = {} /\ nextId = 1 /\ nextUuid = 1
  /\ req = [r \in Req |-> Idle]
  /\ failures = 0
  /\ client = ClientIdle

NextCompress ==
  \/ \E args \in CompressArgs : compressImage(args)
  \/ \E outcome \in Outcomes(client.args[1]) : compressImageSettled(outcome)

SpecCompress == InitCompress /\ [][NextCompress]_vars

\* ----------------------------------------------------- the form view on its own
\* The files the user picks: a small JPEG, two large ones, a large text file, or none.
FormFiles ==
  {NoFile, ImageFile(1, <<"image", "jpeg">>, KB), ImageFile(1, <<"image", "jpeg">>, 400 * KB),
   ImageFile(3, <<"image", "png">>, 400 * KB), ImageFile(1, <<"text", "plain">>, 400 * KB)}
FormOutcomes(imageFile) ==
  {Threw} \cup {Encoded(ImageFile(2, imageFile.type, sz)) : sz \in {KB, 400 * KB + 1}}

NextForm ==
  \/ \E file \in FormFiles : handleFileChange(file)
  \/ \E outcome \in FormOutcomes(client.args[1]) : compressImageSettled(outcome)
  \/ handleFileChangeSettled
  \/ Submit
  \/ SubmitSettled

SpecForm == InitCompress /\ [][NextForm]_vars

\* ------------------------------------------------------- the list on every table
\* How many people the listed table holds at most.
MaxListRows == 3
\* Tables of up to MaxListRows people whose created_at the store set in any order
\* (equal ones included), with and without a portrait.
ListTables ==
  UNION {{[i \in 1..n |->
            [Person(i, "Alice", "Paris", Null, Null, Null, Null,
                    IF p THEN PublicUrl(Filename(i, <<"a.jpg">>)) ELSE NoUrl)
               EXCEPT !.created_at = t[i]]] :
            t \in [1..n -> 1..MaxListRows], p \in BOOLEAN} : n \in 0..MaxListRows}

InitList ==
  /\ rows \in ListTables
  /\ blobs = {Filename(i, <<"a.jpg">>) : i \in {j \in DOMAIN rows : rows[j].photo_url # NoUrl}}
  /\ nextId = Len(rows) + 1 /\ nextUuid = Len(rows) + 1
  /\ req = [r \in Req |-> Idle]
  /\ failures = 0
  /\ client = ClientIdle

NextList == \E ok \in BOOLEAN : ListLoad(1, ok)

SpecList == InitList /\ [][NextList]_vars

\* ================================================================= claims
Started(r) == req[r].pc # "idle"
RowWrites == {"insert", "update", "delete"}
Referenced(table, url) == \E i \in DOMAIN table : table[i].photo_url = url
Dereferenceable(url) == \E k \in blobs : PublicUrl(k) = url

\* C1 (as stated): every create or update submission whose name is absent or empty is
\* answered with fieldErrors.name = "Name is required" and issues no storage call.
C1_EmptyNameFieldError ==
  \A r \in Req :
    (Started(r) /\ req[r].kind \in {"create", "update"}
       /\ req[r].formData.name \in {Null, ""})
      => /\ req[r].response.fieldErrors = {<<"name", "Name is required">>}
         /\ req[r].calls = <<>>

\* C1 (amended): such a submission issues no storage call and leaves rows and blobs as
\* they were; it is answered with fieldErrors.name = "Name is required", except that an
\* update without an id is answered first with "Person ID is required", status 400.
C1_EmptyNameRejected ==
  /\ [](\A r \in Req :
          (Started(r) /\ req[r].kind \in {"create", "update"}
             /\ req[r].formData.name \in {Null, ""})
            => /\ req[r].pc = "rejected"
               /\ req[r].calls = <<>>
               /\ IF req[r].kind = "update" /\ req[r].id = NoId
                    THEN req[r].response = ErrorResponse("Person ID is required", 400)
                    ELSE req[r].response = FieldErrors({<<"name", "Name is required">>}))
  /\ [][\A r \in Req :
          (req'[r] # req[r] /\ req'[r].kind \in {"create", "update"}
             /\ req'[r].formData.name \in {Null, ""})
            => rows' = rows /\ blobs' = blobs]_vars

\* C1 witness: a create with an empty name and a non-empty photo, rejected, in a store
\* that holds a row and a blob.
C1_Witness ==
  \E r \in Req :
    /\ req[r].kind = "create" /\ req[r].pc = "rejected"
    /\ req[r].formData.name = "" /\ req[r].formData.photo.size > 0
    /\ req[r].response.fieldErrors = {<<"name", "Name is required">>}
    /\ rows # <<>> /\ blobs # {}

\* C2: in every reachable state every row of `people` has a non-empty name.
C2_NameNonEmpty ==
  \A i \in DOMAIN rows : rows[i].name \notin {"", Null, Undefined}

\* C2 witness: a row renamed by an update, next to a rejected nameless request.
C2_Witness ==
  /\ \E i \in DOMAIN rows : rows[i].name = "Bob"
  /\ \E r \in Req : req[r].pc = "rejected" /\ req[r].formData.name = ""

\* C3: in every reachable state each row's photo_url is null or the public URL of a
\* blob that exists in the bucket.
C3_PhotoUrlDereferenceable ==
  \A i \in DOMAIN rows :
    rows[i].photo_url = NoUrl \/ Dereferenceable(rows[i].photo_url)

\* C4: a failed row write is the request's last storage call and is answered with an
\* error message; after a failed insert the blob the create uploaded stays in storage
\* and no row references it.
C4_FailedWriteStops ==
  \A r \in Req :
    \A i \in 1..Len(req[r].calls) :
      (req[r].calls[i].op \in RowWrites /\ ~req[r].calls[i].ok)
        => /\ i = Len(req[r].calls)
           /\ req[r].pc = "failed"
           /\ req[r].response.error # Null
           /\ req[r].response.redirect = NoRedirect
           /\ \A j \in 1..(i - 1) : req[r].calls[j].op \notin RowWrites
           /\ (req[r].kind = "create" /\ i = 2)
                => /\ req[r].filename \in blobs
                   /\ ~Referenced(rows, PublicUrl(req[r].filename))

\* C4 witness: a create whose upload succeeded and whose insert failed, while another
\* request went on to remove a blob.
C4_Witness ==
  \E r, q \in Req :
    /\ req[r].kind = "create" /\ req[r].pc = "failed"
    /\ req[r].calls = <<Call("upload", TRUE), Call("insert", FALSE)>>
    /\ req[q].pc = "done" /\ Call("remove", TRUE) \in {req[q].calls[j] : j \in 1..Len(req[q].calls)}

Ops(r) == {req[r].calls[j].op : j \in 1..Len(req[r].calls)}
\* The request in slot r takes a step.
Steps(r) == req'[r] # req[r]
\* The row write of the request in slot r returns successfully.
WriteSucceeds(r) == req[r].pc = "write" /\ req'[r].pc \in {"done", "remove"}

\* C5: an update with keepExistingPhoto = "true" and no new photo sends a patch with no
\* photo_url key, uploads and removes no blob, and leaves the row's photo_url as it was.
C5_KeepLeavesPhotoUrl ==
  /\ [](\A r \in Req :
          (Started(r) /\ req[r].kind = "update"
             /\ req[r].formData.keepExistingPhoto = "true" /\ ~HasNewPhoto(req[r].formData))
            => /\ "photo_url" \notin DOMAIN updateData(req[r].formData, req[r].photo_url)
               /\ Ops(r) \subseteq {"update"})
  /\ [][\A r \in Req :
          (Steps(r) /\ req'[r].kind = "update"
             /\ req'[r].formData.keepExistingPhoto = "true" /\ ~HasNewPhoto(req'[r].formData))
            => /\ blobs' = blobs
               /\ DOMAIN rows' = DOMAIN rows
               /\ \A i \in DOMAIN rows : rows'[i].photo_url = rows[i].photo_url]_vars

\* C5 witness: such an update, with an empty compressed file beside a non-empty photo,
\* has renamed a person whose portrait is still referenced and stored.
C5_Witness ==
  \E r \in Req :
    /\ req[r].kind = "update" /\ req[r].pc = "done"
    /\ req[r].formData.keepExistingPhoto = "true"
    /\ req[r].formData.compressedPhoto = EmptyFile /\ req[r].formData.photo.size > 0
    /\ req[r].id \in DOMAIN rows
    /\ rows[req[r].id].name = "Bob"
    /\ rows[req[r].id].photo_url # NoUrl /\ Dereferenceable(rows[req[r].id].photo_url)

\* C6: an update with no new photo whose keepExistingPhoto field is anything but "true"
\* (absent included) sets the row's photo_url to null when its row update succeeds.
C6_NoKeepClearsPhotoUrl ==
  [][\A r \in Req :
       (req[r].kind = "update" /\ WriteSucceeds(r)
          /\ req[r].formData.keepExistingPhoto # "true" /\ ~HasNewPhoto(req[r].formData)
          /\ req[r].id \in DOMAIN rows)
         => /\ req[r].id \in DOMAIN rows'
            /\ rows'[req[r].id].photo_url = NoUrl]_vars

\* C6 witness: an update whose keep field is "on" has cleared the photo_url of a person
\* whose portrait is still in the bucket.
C6_Witness ==
  \E r \in Req :
    /\ req[r].kind = "update" /\ req[r].pc = "done"
    /\ req[r].formData.keepExistingPhoto = "on"
    /\ req[r].id \in DOMAIN rows
    /\ rows[req[r].id].photo_url = NoUrl
    /\ blobs # {}

\* The upload of the request in slot r returns successfully.
UploadSucceeds(r) == req[r].pc = "upload" /\ req'[r].pc \in {"remove", "write"}

\* C7 (as stated): after the upload of an update's new photo, the removal of the prior
\* blob is attempted exactly when the keep flag is not set and the row has a non-null
\* photo_url.
C7_RemovesExactlyWhenRowHasPhoto ==
  [][\A r \in Req :
       (req[r].kind = "update" /\ UploadSucceeds(r))
         => ((req'[r].pc = "remove")
               <=> (/\ req[r].formData.keepExistingPhoto # "true"
                    /\ req[r].id \in DOMAIN rows
                    /\ rows[req[r].id].photo_url # NoUrl))]_vars

\* C7 (amended): an update with a new photo of size > 0 uploads it under a fresh key and
\* a successful row update sets photo_url to that key's public URL; the removal of the
\* prior blob is attempted exactly when the keep flag is not set and the handler's read
\* of the row returned a non-null photo_url, and it names that URL's last segment; with
\* the keep flag set no step of the request removes a blob.
C7_NewPhotoReplaces ==
  /\ [](\A r \in Req :
          (req[r].kind = "update" /\ req[r].pc = "done" /\ HasNewPhoto(req[r].formData))
            => Call("upload", TRUE) \in {req[r].calls[j] : j \in 1..Len(req[r].calls)})
  /\ [](\A r \in Req :
          (req[r].kind = "update" /\ req[r].formData.keepExistingPhoto = "true")
            => "remove" \notin Ops(r))
  /\ [][\A r \in Req :
          (req[r].kind = "update" /\ Steps(r))
            => /\ UploadSucceeds(r)
                    => /\ req'[r].filename \notin blobs
                       /\ blobs' = blobs \cup {req'[r].filename}
                       /\ req'[r].photo_url = PublicUrl(req'[r].filename)
                       /\ (req'[r].pc = "remove")
                            <=> (/\ req[r].formData.keepExistingPhoto # "true"
                                 /\ req[r].existingPerson.found
                                 /\ req[r].existingPerson.photo_url # NoUrl)
               /\ (WriteSucceeds(r) /\ HasNewPhoto(req[r].formData)
                     /\ req[r].id \in DOMAIN rows)
                    => rows'[req[r].id].photo_url = PublicUrl(req[r].filename)
               /\ req[r].pc = "remove"
                    => blobs' \in {blobs,
                                   blobs \ {LastSegment(req[r].existingPerson.photo_url)}}
               /\ req[r].formData.keepExistingPhoto = "true" => blobs \subseteq blobs']_vars

\* C7 witness: an update that replaced a portrait: the old blob is gone, the new one is
\* stored and the row points at it.
C7_Witness ==
  \E r \in Req :
    /\ req[r].kind = "update" /\ req[r].pc = "done"
    /\ req[r].calls = <<Call("select", TRUE), Call("upload", TRUE),
                        Call("remove", TRUE), Call("update", TRUE)>>
    /\ req[r].id \in DOMAIN rows
    /\ rows[req[r].id].photo_url = PublicUrl(req[r].filename)
    /\ blobs = {req[r].filename}

\* Neither file entry of the form holds a file of non-zero size.
NoPhotoSubmitted(fd) == fd.photo.size = 0 /\ fd.compressedPhoto.size = 0

\* C8: a create whose chosen photo has non-zero size uploads it under a fresh key
\* <uuid>-<original filename> and inserts the row with that key's public URL; a create
\* with no photo of non-zero size uploads nothing, inserts the row with photo_url = null
\* and redirects to /people.
C8_CreatePhoto ==
  [][\A r \in Req :
       (req[r].kind = "create" /\ Steps(r))
         => /\ UploadSucceeds(r)
                 => /\ req'[r].filename \notin blobs
                    /\ blobs' = blobs \cup {req'[r].filename}
                    /\ \E u \in 1..nextUuid :
                         req'[r].filename =
                           Filename(u, photoToUpload(req[r].formData).name)
            /\ WriteSucceeds(r)
                 => \E i \in DOMAIN rows' \ DOMAIN rows :
                      /\ req'[r].response = redirect(PeoplePage)
                      /\ photoToUpload(req[r].formData).size > 0
                           => /\ Call("upload", TRUE) = req[r].calls[1]
                              /\ rows'[i].photo_url = PublicUrl(req[r].filename)
                      /\ NoPhotoSubmitted(req[r].formData)
                           => /\ req'[r].calls = <<Call("insert", TRUE)>>
                              /\ rows'[i].photo_url = NoUrl]_vars

\* C8 witness: a create has stored the photo "d/a.jpg" and its row carries the URL.
C8_Witness ==
  \E r \in Req :
    /\ req[r].kind = "create" /\ req[r].pc = "done"
    /\ req[r].formData.photo.name = <<"d", "a.jpg">>
    /\ req[r].filename \in blobs
    /\ Referenced(rows, PublicUrl(req[r].filename))

\* C9 (as stated): the row read back after a successful create holds, for name and the
\* five optional text fields, the values that were submitted.
C9_ReadsBackSubmitted ==
  [][\A r \in Req :
       (req[r].kind = "create" /\ WriteSucceeds(r))
         => \E i \in DOMAIN rows' \ DOMAIN rows :
              /\ loader(rows', i, TRUE).status = 200
              /\ \A f \in {"name"} \cup TextFields :
                   loader(rows', i, TRUE).person[f] = req[r].formData[f]]_vars

\* C9 (amended): the row read back holds the submitted values, except that an optional
\* field submitted empty reads back as null.
C9_ReadsBackSubmittedOrNull ==
  [][\A r \in Req :
       (req[r].kind = "create" /\ WriteSucceeds(r))
         => \E i \in DOMAIN rows' \ DOMAIN rows :
              /\ loader(rows', i, TRUE).status = 200
              /\ \A f \in {"name"} \cup TextFields :
                   loader(rows', i, TRUE).person[f] =
                     IF f # "name" /\ req[r].formData[f] = "" THEN Null
                     ELSE req[r].formData[f]]_vars

\* C9 witness: a person created with a story, an empty context and no location reads
\* back with the story and with context and location null.
C9_Witness ==
  \E r \in Req :
    /\ req[r].kind = "create" /\ req[r].pc = "done"
    /\ req[r].formData.their_story = "story" /\ req[r].formData.context = ""
    /\ req[r].formData.location = Null
    /\ \E i \in DOMAIN rows :
         LET p == loader(rows, i, TRUE).person IN
           p.their_story = "story" /\ p.context = Null /\ p.location = Null

\* C10: once a delete request for an id has completed successfully, the detail loader
\* and the edit loader answer 404 for that id; both also answer 404 for a missing id,
\* a store error or an id with no row.
C10_DeletedIsNotFound ==
  /\ \A r \in Req :
       (req[r].kind = "delete" /\ req[r].pc = "done")
         => \A ok \in BOOLEAN :
              /\ loader(rows, req[r].id, ok).status = 404
              /\ editLoader(rows, req[r].id, ok).status = 404
  /\ \A i \in {NoId, StrangerId} \cup 1..nextId, ok \in BOOLEAN :
       (i = NoId \/ ~ok \/ i \notin DOMAIN rows)
         => /\ loader(rows, i, ok).status = 404
            /\ editLoader(rows, i, ok).status = 404

\* C10 witness: a person the delete found has been deleted, and an update of the same
\* id has completed too.
C10_Witness ==
  \E r, u \in Req :
    /\ req[r].kind = "delete" /\ req[r].pc = "done" /\ req[r].existingPerson.found
    /\ req[u].kind = "update" /\ req[u].pc = "done" /\ req[u].id = req[r].id
    /\ loader(rows, req[r].id, TRUE).status = 404

\* The operations of the request in slot r, in the order it issued them.
OpSeq(r) == [j \in 1..Len(req[r].calls) |-> req[r].calls[j].op]
IsPrefix(s, t) == Len(s) <= Len(t) /\ \A j \in 1..Len(s) : s[j] = t[j]

\* C11: a delete issues its storage calls in the order read photo_url, delete the row,
\* remove the blob; the removal is attempted only after a successful row delete, and a
\* failed row delete ends the request and changes neither the rows nor the blobs.
C11_DeleteOrder ==
  /\ [](\A r \in Req :
          req[r].kind = "delete"
            => /\ IsPrefix(OpSeq(r), <<"select", "delete", "remove">>)
               /\ "remove" \in Ops(r) => req[r].calls[2] = Call("delete", TRUE)
               /\ Call("delete", FALSE) \in {req[r].calls[j] : j \in 1..Len(req[r].calls)}
                    => req[r].pc = "failed" /\ Len(req[r].calls) = 2)
  /\ [][\A r \in Req :
          (req[r].kind = "delete" /\ req[r].pc = "write" /\ req'[r].pc = "failed")
            => rows' = rows /\ blobs' = blobs]_vars

\* C11 witness: a delete read a person with a portrait, its row delete failed, and the
\* row and the blob are both still there.
C11_Witness ==
  \E r \in Req :
    /\ req[r].kind = "delete" /\ req[r].pc = "failed"
    /\ req[r].calls = <<Call("select", TRUE), Call("delete", FALSE)>>
    /\ req[r].existingPerson.photo_url # NoUrl
    /\ req[r].id \in DOMAIN rows
    /\ rows[req[r].id].photo_url = req[r].existingPerson.photo_url
    /\ Dereferenceable(rows[req[r].id].photo_url)

\* C12 (as stated): a successful create redirects to /people, a successful update or
\* delete to /people/{id} of the person it affected.
C12_RedirectsToPerson ==
  \A r \in Req :
    req[r].pc = "done"
      => req[r].response =
           IF req[r].kind = "create" THEN redirect(PeoplePage)
           ELSE redirect([to |-> "/people/{id}", id |-> req[r].id])

\* C12 (amended): a successful create or delete redirects to /people, a successful
\* update to /people/{id} of the person it affected; no other request redirects.
C12_Redirects ==
  \A r \in Req :
    /\ req[r].pc = "done"
         => req[r].response =
              IF req[r].kind = "update"
                THEN redirect([to |-> "/people/{id}", id |-> req[r].id])
                ELSE redirect([to |-> "/people", id |-> NoId])
    /\ req[r].pc # "done" => req[r].response.redirect = NoRedirect

\* C12 witness: an update of a person and then a delete of the same person have both
\* completed, the first redirected to the person, the second to the list.
C12_Witness ==
  \E r, d \in Req :
    /\ req[r].kind = "update" /\ req[r].pc = "done" /\ req[r].id \in 1..(nextId - 1)
    /\ req[r].response.redirect.to = "/people/{id}"
    /\ req[r].response.redirect.id = req[r].id
    /\ req[d].kind = "delete" /\ req[d].pc = "done" /\ req[d].id = req[r].id
    /\ req[d].existingPerson.found
    /\ req[d].response.redirect.to = "/people"

\* The upload of the request in slot r returns an error.
UploadFails(r) == req[r].pc = "upload" /\ req'[r].pc \notin {"upload", "remove", "write"}

\* C13: a failed blob upload is the request's last storage call and is answered with an
\* error message and no redirect; the request inserts or patches no row and removes no
\* blob, and the failing step itself changes neither the rows nor the blobs.
C13_FailedUploadAborts ==
  /\ [](\A r \in Req :
          Call("upload", FALSE) \in {req[r].calls[j] : j \in 1..Len(req[r].calls)}
            => /\ req[r].calls[Len(req[r].calls)] = Call("upload", FALSE)
               /\ req[r].pc = "failed"
               /\ req[r].response.error = "Failed to upload photo"
               /\ req[r].response.redirect = NoRedirect
               /\ Ops(r) \cap (RowWrites \cup {"remove"}) = {})
  /\ [][\A r \in Req : UploadFails(r) => rows' = rows /\ blobs' = blobs]_vars

\* C13 witness: an update that was to replace a portrait failed at the upload; the row
\* keeps its name and its photo_url, and the prior blob is still stored.
C13_Witness ==
  \E r \in Req :
    /\ req[r].kind = "update" /\ req[r].pc = "failed"
    /\ req[r].calls = <<Call("select", TRUE), Call("upload", FALSE)>>
    /\ RemovesOld(req[r].existingPerson, req[r].formData)
    /\ req[r].id \in DOMAIN rows
    /\ rows[req[r].id].name = "Alice"
    /\ rows[req[r].id].photo_url = req[r].existingPerson.photo_url
    /\ Dereferenceable(rows[req[r].id].photo_url)

\* The calls of the request in slot r, as a set.
CallSet(r) == {req[r].calls[j] : j \in 1..Len(req[r].calls)}

\* C14: a failed blob removal is not surfaced and not retried.  The removal step, failed
\* or not, changes no row and moves the request on to the same next step with the same
\* data (an update to its row update, a delete to its redirect to /people); when it
\* fails the blobs stay as they were.  A request whose removal failed issued one removal
\* only, and it ends in its success redirect unless the row update that follows fails.
C14_CleanupFailureSilent ==
  /\ [](\A r \in Req :
          Call("remove", FALSE) \in CallSet(r)
            => /\ Cardinality({j \in 1..Len(req[r].calls) : req[r].calls[j].op = "remove"}) = 1
               /\ req[r].kind = "delete"
                    => req[r].pc = "done" /\ req[r].response = redirect(PeoplePage)
               /\ req[r].kind = "update"
                    => /\ req[r].pc \in {"write", "done", "failed"}
                       /\ req[r].pc = "done" <=> Call("update", TRUE) \in CallSet(r)
                       /\ req[r].pc = "done" => req[r].response = redirect(PersonPage(req[r].id))
                       /\ req[r].pc = "failed" <=> Call("update", FALSE) \in CallSet(r))
  /\ [][\A r \in Req :
          (req[r].pc = "remove" /\ Steps(r))
            => /\ rows' = rows
               /\ req'[r].calls[Len(req'[r].calls)].op = "remove"
               /\ ~req'[r].calls[Len(req'[r].calls)].ok => blobs' = blobs
               /\ blobs' \subseteq blobs
               /\ [req'[r] EXCEPT !.calls = <<>>] =
                    [req[r] EXCEPT !.calls = <<>>,
                                   !.pc = IF req[r].kind = "update" THEN "write" ELSE "done",
                                   !.response = IF req[r].kind = "update" THEN @
                                                ELSE redirect(PeoplePage)]]_vars

\* C14 witness: an update replaced a portrait although the removal of the old blob
\* failed: the row points at the new blob and the old blob is still stored.
C14_Witness ==
  \E r \in Req :
    /\ req[r].kind = "update" /\ req[r].pc = "done"
    /\ req[r].calls = <<Call("select", TRUE), Call("upload", TRUE),
                        Call("remove", FALSE), Call("update", TRUE)>>
    /\ req[r].id \in DOMAIN rows
    /\ rows[req[r].id].photo_url = PublicUrl(req[r].filename)
    /\ LastSegment(req[r].existingPerson.photo_url) \in blobs
    /\ req[r].response = redirect(PersonPage(req[r].id))

\* How many calls of the request in slot r are of one of these operations.
Count(r, ops) == Cardinality({j \in 1..Len(req[r].calls) : req[r].calls[j].op \in ops})

\* C15: whatever the outcomes of its calls, a request issues at most one blob upload, at
\* most one row write (insert, update or delete), at most one blob removal and at most
\* one read of the row.
C15_NoRetry ==
  \A r \in Req :
    /\ Count(r, {"upload"}) <= 1
    /\ Count(r, RowWrites) <= 1
    /\ Count(r, {"remove"}) <= 1
    /\ Count(r, {"select"}) <= 1

\* C15 witness: a create stopped at its failed upload, after a delete had gone through
\* its read, its row delete and its removal.
C15_Witness ==
  \E r, d \in Req :
    /\ req[r].kind = "create" /\ req[r].pc = "failed"
    /\ req[r].calls = <<Call("upload", FALSE)>>
    /\ req[d].kind = "delete" /\ req[d].pc = "done"
    /\ OpSeq(d) = <<"select", "delete", "remove">>

\* C16: compressImage(imageFile, maxSizeKB), with maxSizeKB = 300 when it is not given,
\* returns the very file it was given and never calls the re-encoder when the file's
\* type does not start with "image/" or its size is at most maxSizeKB * 1024 bytes.
C16_SmallOrNotImageUnchanged ==
  client.pc # "idle"
    => LET f == client.args[1]
           k == IF Len(client.args) = 2 THEN client.args[2] ELSE 300
       IN (Len(f.type) < 2 \/ f.type[1] # "image" \/ f.size <= k * 1024)
            => /\ client.pc = "resolved"
               /\ client.result = f
               /\ client.encoderCalls = 0

\* C16 witness: a JPEG of exactly 300 * 1024 bytes, compressed with the default target,
\* came back as the same file.
C16_Witness ==
  /\ client.pc = "resolved"
  /\ Len(client.args) = 1
  /\ client.args[1] = ImageFile(1, <<"image", "jpeg">>, 307200)
  /\ client.result = client.args[1]
  /\ client.encoderCalls = 0

\* C17: compressImage always resolves, never rejects; when the re-encoder threw, or
\* answered with a file larger than the input, it resolves to the very file it was given.
C17_FallsBackToOriginal ==
  /\ client.pc \in {"idle", "encoding", "resolved"}
  /\ (client.pc = "resolved" /\ client.encoderCalls > 0)
       => /\ (client.outcome.threw \/ client.outcome.file.size > client.args[1].size)
               => client.result = client.args[1]
          /\ client.result \in {client.args[1], client.outcome.file}

\* C17 witness: the re-encoder answered a JPEG larger than the input and compressImage
\* resolved to the input.
C17_Witness ==
  /\ client.pc = "resolved" /\ client.encoderCalls = 1
  /\ ~client.outcome.threw
  /\ client.outcome.file.size > client.args[1].size
  /\ client.result = client.args[1]
  /\ client.result.ref = 1

\* The request in slot r is received in this step.
Received(r) == req[r].pc = "idle" /\ req'[r].pc # "idle"

\* C18: a create whose name is non-empty is accepted whatever its other fields are: it
\* is not rejected and returns no field error; when its insert succeeds, each optional
\* text field is stored as submitted, or as null when it was absent or empty, and
\* photo_url is null when no photo of non-zero size came with it.
C18_OnlyNameRequired ==
  [][\A r \in Req :
       (req'[r].kind = "create" /\ req'[r].formData.name \notin {Null, ""})
         => /\ Received(r)
                 => /\ req'[r].pc \in {"upload", "write"}
                    /\ req'[r].response.fieldErrors = {}
            /\ WriteSucceeds(r)
                 => \E i \in DOMAIN rows' \ DOMAIN rows :
                      /\ rows'[i].name = req[r].formData.name
                      /\ \A f \in TextFields :
                           rows'[i][f] = IF req[r].formData[f] \in {Null, ""} THEN Null
                                         ELSE req[r].formData[f]
                      /\ NoPhotoSubmitted(req[r].formData) => rows'[i].photo_url = NoUrl]_vars

\* C18 witness: a create with a name only, its other text fields absent or empty and no
\* photo, has stored a row whose optional fields are all null.
C18_Witness ==
  \E r \in Req :
    /\ req[r].kind = "create" /\ req[r].pc = "done"
    /\ req[r].formData.name = "Alice"
    /\ req[r].formData.location = Null /\ req[r].formData.context = ""
    /\ \A f \in TextFields : req[r].formData[f] \in {Null, ""}
    /\ req[r].formData.photo = NoEntry
    /\ \E i \in DOMAIN rows :
         /\ rows[i].name = "Alice" /\ rows[i].photo_url = NoUrl
         /\ \A f \in TextFields : rows[i][f] = Null

\* Two rows that differ in nothing but what the store assigned (id, created_at) and
\* the photo's key.
SameFields(p, q) == \A f \in {"name"} \cup TextFields : p[f] = q[f]

\* C19: every successful create adds exactly one row, under an identifier no row has or
\* ever had, and leaves the other rows as they were, whether or not the table already
\* holds a row with the same fields.
C19_CreateAlwaysAddsRow ==
  /\ [](DOMAIN rows \subseteq 1..(nextId - 1))
  /\ [][\A r \in Req :
          (req[r].kind = "create" /\ WriteSucceeds(r))
            => /\ DOMAIN rows' = DOMAIN rows \cup {nextId}
               /\ Cardinality(DOMAIN rows') = Cardinality(DOMAIN rows) + 1
               /\ nextId' > nextId
               /\ \A i \in DOMAIN rows : rows'[i] = rows[i]
               /\ rows'[nextId].name = req[r].formData.name]_vars

\* C19 witness: two creates submitted the same fields and both completed; the table
\* holds two rows with those fields under different identifiers.
C19_Witness ==
  \E r, q \in Req :
    /\ r # q
    /\ req[r].kind = "create" /\ req[r].pc = "done"
    /\ req[q].kind = "create" /\ req[q].pc = "done"
    /\ req[r].formData = req[q].formData
    /\ \E i, j \in DOMAIN rows :
         /\ i # j /\ SameFields(rows[i], rows[j])
         /\ rows[i].name = req[r].formData.name
         /\ rows[i].photo_url # rows[j].photo_url

\* The state of the request in slot r, in the handler's state order.  Validation is part
\* of the step that receives the request, and a create or an update returns its redirect
\* in the step that persists, so Persisted is seen only in a delete, before its removal.
State(q) ==
  CASE q.pc = "idle" -> "None"
    [] q.pc = "rejected" -> "Rejected"
    [] q.pc = "failed" -> "Failed"
    [] q.pc = "done" -> "Done"
    [] q.pc = "remove" /\ q.kind = "delete" -> "Persisted"
    [] q.pc \in {"remove", "write"} /\ q.photo_url # NoUrl -> "PhotoResolved"
    [] OTHER -> "Validated"
StateRank(st) ==
  CASE st = "None" -> 0
    [] st = "Validated" -> 1
    [] st = "PhotoResolved" -> 2
    [] st = "Persisted" -> 3
    [] OTHER -> 4
\* The position of a request inside its handler.
PcRank(q) ==
  CASE q.pc = "idle" -> 0
    [] q.pc = "select" -> 1
    [] q.pc = "upload" -> 2
    [] q.pc = "remove" /\ q.kind = "update" -> 3
    [] q.pc = "write" -> 4
    [] q.pc = "remove" -> 5
    [] OTHER -> 6

\* C20: a request moves through None, Validated, PhotoResolved, Persisted in this order,
\* never back and never twice through the same position, and ends in exactly one of
\* Done (a redirect, after a successful row write), Rejected (no storage call was made)
\* or Failed (its last storage call, an upload or a row write, returned an error); an
\* ended request takes no further step and a request that has not ended can always take
\* its next step.
C20_StateOrder ==
  /\ [](\A r \in Req :
          /\ State(req[r]) = "Rejected" => req[r].calls = <<>>
          /\ State(req[r]) = "Failed"
               => /\ req[r].calls # <<>>
                  /\ ~req[r].calls[Len(req[r].calls)].ok
                  /\ req[r].calls[Len(req[r].calls)].op \in {"upload"} \cup RowWrites
                  /\ req[r].response.error # Null
          /\ State(req[r]) = "Done"
               => /\ req[r].response.status = 302
                  /\ \E j \in 1..Len(req[r].calls) :
                       req[r].calls[j].op \in RowWrites /\ req[r].calls[j].ok
          /\ State(req[r]) \in {"Validated", "PhotoResolved", "Persisted"}
               => /\ req[r].response = NoResponse
                  /\ ENABLED Step(r))
  /\ [][\A r \in Req :
          Steps(r)
            => /\ req[r].pc \notin Terminal
               /\ PcRank(req'[r]) > PcRank(req[r])
               /\ StateRank(State(req'[r])) >= StateRank(State(req[r]))
               /\ State(req[r]) = "None" => State(req'[r]) \in {"Validated", "Rejected"}
               /\ State(req'[r]) = "Rejected" => State(req[r]) = "None"
               /\ State(req[r]) = "Persisted" => State(req'[r]) = "Done"]_vars

\* C20 witness: an update went through its read, its upload, a removal and its row
\* update and is Done, beside a request that was Rejected.
C20_Witness ==
  \E r, q \in Req :
    /\ req[r].kind = "update" /\ State(req[r]) = "Done"
    /\ OpSeq(r) = <<"select", "upload", "remove", "update">>
    /\ State(req[q]) = "Rejected"

\* C21: in the form view, while a compression is in progress (from the selection of a
\* file until compressImage has settled and handleFileChange has taken its result) the
\* compressing flag is set and the controls are disabled: no submission starts and no
\* other file is taken; when handleFileChange is done the flag is cleared, whatever
\* compressImage answered, and the handler can always get there.
C21_CompressionBlocksSubmission ==
  /\ [](client.pc \in {"encoding", "resolved"}
          => client.isCompressing /\ isSubmitting(client) /\ client.navigation = "idle")
  /\ [](client.pc = "idle" => ~client.isCompressing)
  /\ [](client.pc = "resolved" => ENABLED handleFileChangeSettled)
  /\ [][client.pc \in {"encoding", "resolved"}
          => /\ client'.navigation = client.navigation
             /\ client'.picks = client.picks
             /\ client'.file = client.file
             /\ client'.encoderCalls = client.encoderCalls]_vars

\* C21 witness: the re-encoder threw on the second file picked; the flag is cleared
\* again and the form is being submitted.
C21_Witness ==
  /\ client.picks = 2 /\ client.encoderCalls = 2
  /\ client.outcome.threw
  /\ client.pc = "idle" /\ ~client.isCompressing
  /\ client.compressedFile = client.file
  /\ client.navigation = "submitting"

\* A form entry that holds a file of non-zero size.
NonEmptyFile(e) == e.kind = "file" /\ e.size > 0

\* C22: a create or update that passed validation with a compressed photo and an
\* original photo, both of non-zero size, goes on to upload, and what it uploads is the
\* compressed one (the key carries its name); a request uploads the original only when
\* its compressedPhoto entry is absent or the empty string.
C22_CompressedPreferred ==
  [][\A r \in Req :
       (req'[r].kind \in {"create", "update"} /\ Steps(r))
         => LET fd == req'[r].formData IN
              /\ (Received(r) /\ req'[r].pc # "rejected"
                    /\ NonEmptyFile(fd.compressedPhoto) /\ NonEmptyFile(fd.photo))
                   => req'[r].pc \in {"upload", "select"}
              /\ (UploadSucceeds(r) /\ NonEmptyFile(fd.compressedPhoto))
                   => /\ req'[r].filename = Filename(nextUuid, fd.compressedPhoto.name)
                      /\ req'[r].filename \in blobs'
              /\ (UploadSucceeds(r) /\ req'[r].filename = Filename(nextUuid, fd.photo.name))
                   => /\ NonEmptyFile(fd.photo)
                      /\ fd.compressedPhoto \in {NoEntry, StrEntry("")}]_vars

\* C22 witness: an update that carried c.jpg as compressed photo and a.jpg as original
\* is done; the row points at the blob named after c.jpg and no blob is named after a.jpg.
C22_Witness ==
  \E r \in Req :
    /\ req[r].kind = "update" /\ req[r].pc = "done"
    /\ req[r].formData.compressedPhoto = FileEntry(<<"c.jpg">>, 1)
    /\ req[r].formData.photo = FileEntry(<<"a.jpg">>, 1)
    /\ req[r].id \in DOMAIN rows
    /\ \E u \in 1..nextUuid :
         /\ rows[req[r].id].photo_url = PublicUrl(Filename(u, <<"c.jpg">>))
         /\ Filename(u, <<"c.jpg">>) \in blobs
    /\ \A u \in 1..nextUuid : Filename(u, <<"a.jpg">>) \notin blobs

\* C23: when the row update of an update with a new photo has failed, the photo_url the
\* row still holds references a blob that exists: the request has not removed the prior
\* blob.
C23_FailedUpdateKeepsBlob ==
  \A r \in Req :
    (/\ req[r].kind = "update" /\ req[r].pc = "failed"
     /\ HasNewPhoto(req[r].formData)
     /\ Call("update", FALSE) \in CallSet(r)
     /\ req[r].id \in DOMAIN rows
     /\ rows[req[r].id].photo_url # NoUrl)
      => /\ Dereferenceable(rows[req[r].id].photo_url)
         /\ Call("remove", TRUE) \notin CallSet(r)

\* Every request that was started has returned.
AllCompleted == \A r \in Req : req[r].pc \in {"idle"} \cup Terminal

C25_UpdateKeepsRowSet ==
  [][\A r \in Req :
       (req'[r].kind = "update" /\ Steps(r))
         => /\ DOMAIN rows' = DOMAIN rows
            /\ (WriteSucceeds(r) /\ req[r].id \notin DOMAIN rows)
                 => /\ rows' = rows
                    /\ req'[r].pc = "done"
                    /\ req'[r].response = redirect([to |-> "/people/{id}", id |-> req[r].id])]_vars

\* C25 witness: a delete removed a person; an update of the same person, whose read came
\* after that delete, completed with its redirect and the person is still gone.
C25_Witness ==
  \E d, u \in Req :
    /\ req[d].kind = "delete" /\ req[d].pc = "done" /\ req[d].existingPerson.found
    /\ req[u].kind = "update" /\ req[u].pc = "done" /\ req[u].id = req[d].id
    /\ req[u].calls[1] = Call("select", TRUE) /\ ~req[u].existingPerson.found
    /\ req[u].response.status = 302
    /\ req[u].id \notin DOMAIN rows

C27_InvalidActionRejected ==
  /\ [](\A r \in Req :
          (req[r].kind = "delete"
             /\ (req[r].id = NoId \/ req[r].formData.intent # "delete"))
            => /\ req[r].pc = "rejected"
               /\ req[r].calls = <<>>
               /\ req[r].response.status = 400
               /\ req[r].response.redirect = NoRedirect
               /\ req[r].id # NoId => req[r].response.error = "Invalid action")
  /\ [][\A r \in Req :
          (Steps(r) /\ req'[r].kind = "delete"
             /\ (req'[r].id = NoId \/ req'[r].formData.intent # "delete"))
            => rows' = rows /\ blobs' = blobs]_vars

\* C27 witness: a POST with intent "edit" for a person who has a portrait was rejected
\* with "Invalid action"; the person and the portrait are still there.
C27_Witness ==
  \E r \in Req :
    /\ req[r].kind = "delete" /\ req[r].pc = "rejected"
    /\ req[r].formData.intent = "edit"
    /\ req[r].response = ErrorResponse("Invalid action", 400)
    /\ req[r].id \in DOMAIN rows
    /\ Dereferenceable(rows[req[r].id].photo_url)

\* C28: a create or update that carried a compressed photo of size 0 together with an
\* original photo of non-zero size and ran to its redirect has uploaded the original.
C28_EmptyCompressedDoesNotSuppress ==
  \A r \in Req :
    (/\ req[r].kind \in {"create", "update"} /\ req[r].pc = "done"
     /\ req[r].formData.compressedPhoto.kind = "file"
     /\ req[r].formData.compressedPhoto.size = 0
     /\ NonEmptyFile(req[r].formData.photo))
      => /\ Call("upload", TRUE) \in CallSet(r)
         /\ \E u \in 1..nextUuid :
              req[r].filename = Filename(u, req[r].formData.photo.name)

\* C29: whatever the input and whatever the re-encoder answers, the file compressImage
\* resolves to is the input itself or the file the re-encoder answered, and it is never
\* larger than the input.
C29_ResultNeverLarger ==
  client.pc = "resolved"
    => /\ \/ client.result = client.args[1]
          \/ /\ client.encoderCalls > 0 /\ ~client.outcome.threw
             /\ client.result = client.outcome.file
       /\ client.result.size <= client.args[1].size

\* C29 witness: a 400 KB PNG came back as the re-encoder's 300 KB file.
C29_Witness ==
  /\ client.pc = "resolved"
  /\ client.args[1] = ImageFile(1, <<"image", "png">>, 409600)
  /\ client.result = ImageFile(2, <<"image", "png">>, 307200)
  /\ client.result = client.outcome.file

\* C30: the people list loader answers, when the store returns the rows, with every row
\* once (its six listed columns), newest created_at first; when the store returns an
\* error it answers with the empty list and no error; in both cases it makes one read
\* and changes neither rows nor blobs.
C30_ListNewestFirst ==
  /\ [](\A r \in Req :
          (req[r].kind = "list" /\ req[r].pc = "done")
            => LET people == req[r].people IN
                 /\ req[r].response.status = 200 /\ req[r].response.error = Null
                 /\ OpSeq(r) = <<"select">>
                 /\ req[r].calls[1].ok
                      => /\ Len(people) = Cardinality(DOMAIN rows)
                         /\ {people[k].id : k \in 1..Len(people)} = DOMAIN rows
                         /\ \A k \in 1..Len(people) :
                              \A c \in DOMAIN people[k] : people[k][c] = rows[people[k].id][c]
                         /\ \A k \in 1..(Len(people) - 1) :
                              people[k].created_at >= people[k + 1].created_at
                 /\ ~req[r].calls[1].ok => people = <<>>)
  /\ [][\A r \in Req :
          (Steps(r) /\ req'[r].kind = "list") => rows' = rows /\ blobs' = blobs]_vars

\* C30 witness: three people were listed newest first, which is not the order of their
\* identifiers.
C30_Witness ==
  \E r \in Req :
    /\ req[r].kind = "list" /\ req[r].pc = "done" /\ req[r].calls[1].ok
    /\ Len(req[r].people) = 3
    /\ req[r].people[1].id = 2 /\ req[r].people[2].id = 3 /\ req[r].people[3].id = 1
    /\ req[r].people[1].created_at > req[r].people[2].created_at
    /\ req[r].people[2].created_at > req[r].people[3].created_at

====
